---- MODULE Spec2Model ----
(***************************************************************************)
(* A model of rez's build process helper (src/src/rez/build_process_.py):  *)
(* BuildProcessHelper.visit_variants, create_build_context, pre_release,   *)
(* post_release, get_current_tag_name, run_hooks, get_previous_release,    *)
(* get_release_data and the scoped VCS operation repo_operation.           *)
(*                                                                         *)
(* The object's fields are variables that are set at construction and      *)
(* never change afterwards.  One operation runs at a time (the code is     *)
(* single-threaded): pc is the position inside the running operation,      *)
(* frame holds its local variables, log the calls it has made to its       *)
(* collaborators (VCS adapter, hooks, per-variant function, resolver,      *)
(* printers), raised the exception that left it and returned its value.    *)
(***************************************************************************)
EXTENDS Naturals, Sequences, FiniteSets

VARIABLES
    vcs,                  \* self.vcs: TRUE when a VCS adapter is bound
    ensure_latest,        \* self.ensure_latest
    skip_errors,          \* self.skip_errors
    ignore_existing_tag,  \* self.ignore_existing_tag
    verbose,              \* self.verbose
    package,              \* self.package: [num_variants, version, uuid]
    hooks,                \* self.hooks: the loaded hooks, in load order
    config,               \* the settings read from config / package.config
    repo_tags,            \* the tags that exist in the repository
    files,                \* the files written so far: path -> content
    pc,                   \* position of the running operation
    frame,                \* local variables of the running operation
    log,                  \* calls made by the running operation, in order
    raised,               \* the exception that left the operation
    returned              \* the value the operation returned

fields == <<vcs, ensure_latest, skip_errors, ignore_existing_tag, verbose,
            package, hooks, config>>
vars == <<vcs, ensure_latest, skip_errors, ignore_existing_tag, verbose,
          package, hooks, config, repo_tags, files, pc, frame, log, raised,
          returned>>

\* ---------------------------------------------------------------- bounds
MaxVariants == 3
MaxVersion == 3
MaxHooks == 3
MaxLen == 2
MaxChangelogLen == 12

\* ------------------------------------------------------- values, helpers
NoError == [type |-> "none", detail |-> <<>>]
NoReturn == [some |-> FALSE]
NoFrame == [op |-> "none"]
\* None, and a value that may be None: a sequence of at most one element
None == <<>>
Some(x) == <<x>>

Err(type, detail) == [type |-> type, detail |-> detail]
Return(value) == [some |-> TRUE, value |-> value]

Min(S) == CHOOSE x \in S : \A y \in S : x <= y

\* sorted(): the elements of a set of integers in ascending order
RECURSIVE sorted(_)
sorted(S) == IF S = {} THEN <<>> ELSE <<Min(S)>> \o sorted(S \ {Min(S)})

\* range(n) of Python: 0 .. n-1
range(n) == {i \in 0..n : i < n}

\* An operation may be called when none is running.
Callable == pc \in {"idle", "done"}

\* The state every operation starts from and the one after construction.
Fresh ==
    /\ pc = "idle"
    /\ frame = NoFrame
    /\ log = <<>>
    /\ raised = NoError
    /\ returned = NoReturn

DefaultPackage == [num_variants |-> 1, version |-> 1, uuid |-> ""]
DefaultConfig == [check_tag |-> TRUE, tag_name |-> "{version}",
                  max_package_changelog_chars |-> 0]

\* ---------------------------------------------------------- visit_variants
\* Package.iter_variants: the package's variants in index order.
iter_variants(pkg) == [i \in 1..pkg.num_variants |-> [index |-> i - 1]]

\* The filter argument of visit_variants: a list of indices, or None.  The
\* code reads it only through its truth value, set() and "in", so a set of
\* indices stands for it ({} for None and for the empty list).
VariantFilters == SUBSET (0..MaxVariants)

\* What one call of the per-variant function does: return a value or raise.
FuncReturns == {"r1", "r2"}
FuncOutcomes == [ok : {TRUE}, value : FuncReturns]
                \cup {[ok |-> FALSE, value |-> "BuildError"]}

\* (an off-by-one in the range of present variants)
invalid_variants_offbyone(variants, pkg) ==
    variants \ range(pkg.num_variants + 1)

\* lines 155-156: the indices of the filter the package does not have
invalid_variants(variants, pkg) == variants \ range(pkg.num_variants)

\* (the test of the filter's truth value forgotten)
skipped_nofilter(variants, variant) == variant.index \notin variants

\* line 167: the variant is skipped
skipped(variants, variant) == variants # {} /\ variant.index \notin variants

\* lines 152-164: the check of the filter, and the loop's initial state
visit_variants(variants) ==
    /\ Callable
    /\ log' = <<>>
    /\ returned' = NoReturn
    /\ IF variants # {} /\ invalid_variants(variants, package) # {}
       THEN /\ raised' = Err("BuildError",
                             sorted(invalid_variants(variants, package)))
            /\ frame' = [op |-> "visit_variants", variants |-> variants]
            /\ pc' = "done"
       ELSE /\ raised' = NoError
            /\ frame' = [op |-> "visit_variants", variants |-> variants,
                         it |-> 1, results |-> <<>>, num_visited |-> 0]
            /\ pc' = "visit_loop"
    /\ UNCHANGED <<fields, repo_tags, files>>

\* (an error of the per-variant function noted, and the loop going on)
visit_variants_iter_resilient(outcome) ==
    /\ pc = "visit_loop"
    /\ frame.it <= Len(iter_variants(package))
    /\ LET variant == iter_variants(package)[frame.it] IN
       IF skipped(frame.variants, variant)
       THEN /\ log' = Append(log, [call |-> "_print_header",
                                   index |-> variant.index])
            /\ frame' = [frame EXCEPT !.it = @ + 1]
            /\ UNCHANGED <<pc, raised>>
       ELSE /\ log' = Append(log, [call |-> "func", index |-> variant.index,
                                   outcome |-> outcome])
            /\ IF outcome.ok
               THEN /\ frame' = [frame EXCEPT
                                   !.it = @ + 1,
                                   !.results = Append(@, outcome.value),
                                   !.num_visited = @ + 1]
                    /\ UNCHANGED <<pc, raised>>
               ELSE /\ raised' = Err(outcome.value, <<variant.index>>)
                    /\ frame' = [frame EXCEPT !.it = @ + 1]
                    /\ UNCHANGED pc
    /\ UNCHANGED <<fields, repo_tags, files, returned>>

\* lines 166-173: one iteration of the loop over the variants
visit_variants_iter(outcome) ==
    /\ pc = "visit_loop"
    /\ frame.it <= Len(iter_variants(package))
    /\ LET variant == iter_variants(package)[frame.it] IN
       IF skipped(frame.variants, variant)
       THEN /\ log' = Append(log, [call |-> "_print_header",
                                   index |-> variant.index])
            /\ frame' = [frame EXCEPT !.it = @ + 1]
            /\ UNCHANGED <<pc, raised>>
       ELSE /\ log' = Append(log, [call |-> "func", index |-> variant.index,
                                   outcome |-> outcome])
            /\ IF outcome.ok
               THEN /\ frame' = [frame EXCEPT
                                   !.it = @ + 1,
                                   !.results = Append(@, outcome.value),
                                   !.num_visited = @ + 1]
                    /\ UNCHANGED <<pc, raised>>
               ELSE /\ raised' = Err(outcome.value, <<variant.index>>)
                    /\ pc' = "done"
                    /\ UNCHANGED frame
    /\ UNCHANGED <<fields, repo_tags, files, returned>>

\* line 175: the loop is over
visit_variants_return ==
    /\ pc = "visit_loop"
    /\ frame.it > Len(iter_variants(package))
    /\ returned' = Return(<<frame.num_visited, frame.results>>)
    /\ pc' = "done"
    /\ UNCHANGED <<fields, repo_tags, files, frame, log, raised>>

InitVisit ==
    /\ Fresh
    /\ vcs = FALSE
    /\ ensure_latest = TRUE
    /\ skip_errors = FALSE
    /\ ignore_existing_tag = FALSE
    /\ verbose = FALSE
    /\ package \in [num_variants : 0..MaxVariants, version : {1}, uuid : {""}]
    /\ hooks = <<>>
    /\ config = DefaultConfig
    /\ repo_tags = {}
    /\ files = <<>>

NextVisit ==
    \/ \E variants \in VariantFilters : visit_variants(variants)
    \/ \E outcome \in FuncOutcomes : visit_variants_iter(outcome)
    \/ visit_variants_return

SpecVisit == InitVisit /\ [][NextVisit]_vars

\* ------------------------------------------------------------- exceptions
\* The base class of each exception class of rez.exceptions the module
\* imports (lines 2-4); anything else derives from Exception directly.
base_class(cls) ==
    CASE cls = "BuildError" -> "RezError"
      [] cls = "BuildContextResolveError" -> "BuildError"
      [] cls = "BuildProcessError" -> "RezError"
      [] cls = "ReleaseError" -> "RezError"
      [] cls = "ReleaseVCSError" -> "ReleaseError"
      [] cls = "ReleaseHookError" -> "RezError"
      [] cls = "ReleaseHookCancellingError" -> "RezError"
      [] OTHER -> "Exception"

\* isinstance(e, cls) for an exception e of class exc, as an except clause
\* tests it
RECURSIVE isinstance(_, _)
isinstance(exc, cls) ==
    \/ exc = cls
    \/ exc # "Exception" /\ isinstance(base_class(exc), cls)

\* --------------------------------------------------------------- run_hooks
\* HookEvent: label, noun and the name of the hook method of each event
HookEvents ==
    {[label |-> "pre-build", noun |-> "build", func_name |-> "pre_build"],
     [label |-> "pre-release", noun |-> "release",
      func_name |-> "pre_release"],
     [label |-> "post-release", noun |-> "release",
      func_name |-> "post_release"]}

\* What a hook's callback does: return, or raise an exception of some class
HookOutcomes == {"ok", "ReleaseHookCancellingError", "ReleaseHookError",
                 "ValueError"}

\* (the except clauses in the opposite order)
hook_except_swapped(exc) ==
    IF isinstance(exc, "RezError") THEN "debug_print"
    ELSE IF isinstance(exc, "ReleaseHookCancellingError") THEN "cancel"
    ELSE "propagate"

\* lines 284, 289: the except clause that handles an exception of a hook
hook_except(exc) ==
    IF isinstance(exc, "ReleaseHookCancellingError") THEN "cancel"
    ELSE IF isinstance(exc, "RezError") THEN "debug_print"
    ELSE "propagate"

\* line 277: the call
run_hooks(hook_event) ==
    /\ Callable
    /\ pc' = "hooks_loop"
    /\ frame' = [op |-> "run_hooks", hook_event |-> hook_event, it |-> 1]
    /\ log' = <<>>
    /\ raised' = NoError
    /\ returned' = NoReturn
    /\ UNCHANGED <<fields, repo_tags, files>>

\* lines 278-293: one iteration of the loop over the hooks.  The handler of
\* line 289 binds no name, and the name e it reads at line 293 is bound
\* only by the handler of line 284, which always raises: reading it raises
\* UnboundLocalError before debug_print is called.
run_hooks_iter(outcome) ==
    /\ pc = "hooks_loop"
    /\ frame.it <= Len(hooks)
    /\ LET hook == hooks[frame.it]
           event == frame.hook_event
       IN
       /\ log' = log \o
                 <<[call |-> "debug_print", what |-> "Running",
                    label |-> event.label, hook |-> hook.name],
                   [call |-> "hook", func_name |-> event.func_name,
                    hook |-> hook.name, outcome |-> outcome]>>
       /\ CASE outcome = "ok" ->
                 /\ frame' = [frame EXCEPT !.it = @ + 1]
                 /\ UNCHANGED <<pc, raised>>
            [] outcome # "ok" /\ hook_except(outcome) = "cancel" ->
                 /\ raised' = Err("ReleaseError",
                                  [noun |-> event.noun,
                                   label |-> event.label,
                                   hook |-> hook.name, cause |-> outcome])
                 /\ pc' = "done"
                 /\ UNCHANGED frame
            [] outcome # "ok" /\ hook_except(outcome) = "debug_print" ->
                 /\ raised' = Err("UnboundLocalError", <<"e">>)
                 /\ pc' = "done"
                 /\ UNCHANGED frame
            [] outcome # "ok" /\ hook_except(outcome) = "propagate" ->
                 /\ raised' = Err(outcome, <<>>)
                 /\ pc' = "done"
                 /\ UNCHANGED frame
    /\ UNCHANGED <<fields, repo_tags, files, returned>>

\* the loop is over: run_hooks returns None
run_hooks_return ==
    /\ pc = "hooks_loop"
    /\ frame.it > Len(hooks)
    /\ returned' = Return(None)
    /\ pc' = "done"
    /\ UNCHANGED <<fields, repo_tags, files, frame, log, raised>>

\* create_release_hooks: the hooks loaded from the package's hook names
LoadedHooks(n) == [i \in 1..n |-> [name |-> i]]

InitHooks ==
    /\ Fresh
    /\ vcs = FALSE
    /\ ensure_latest = TRUE
    /\ skip_errors \in BOOLEAN
    /\ ignore_existing_tag = FALSE
    /\ verbose = FALSE
    /\ package = DefaultPackage
    /\ hooks \in {LoadedHooks(n) : n \in 0..MaxHooks}
    /\ config = DefaultConfig
    /\ repo_tags = {}
    /\ files = <<>>

NextHooks ==
    \/ \E hook_event \in HookEvents : run_hooks(hook_event)
    \/ \E outcome \in HookOutcomes : run_hooks_iter(outcome)
    \/ run_hooks_return

SpecHooks == InitHooks /\ [][NextHooks]_vars

\* ---------------------------------------------------------- repo_operation
\* What a call of the VCS adapter does: return, or raise an exception
VcsErrors == {"ReleaseVCSError", "ReleaseError", "BuildError", "OSError"}
VcsOutcomes == {"ok"} \cup VcsErrors

\* (the scope catching whatever skip_errors is)
exc_type_always == "ReleaseVCSError"

\* line 146: the exception class the scope catches; with None the except
\* clause of line 149 matches nothing
exc_type == IF skip_errors THEN "ReleaseVCSError" ELSE "None"

\* (the scope catching every domain error)
suppressed_any_rez(exc) == skip_errors /\ isinstance(exc, "RezError")

\* lines 147-150: the scope catches the exception raised inside it
suppressed(exc) == isinstance(exc, exc_type)

\* line 150: the warning printed for a caught exception
print_warning(exc) == [call |-> "print_warning", skipped |-> exc]

\* ------------------------------------------------------ get_current_tag_name
\* The tag-name templates of the configuration: one that formats to the
\* version, the empty one, and one that names a field the package lacks.
TagTemplates == {"{version}", "", "{bad}"}

\* str(version)
str(version) == <<"str", version>>

\* Package.format: the formatted template, or an exception
format(pkg, template) ==
    CASE template = "{version}" -> [ok |-> TRUE, value |-> str(pkg.version)]
      [] template = "" -> [ok |-> TRUE, value |-> <<>>]
      [] OTHER -> [ok |-> FALSE, value |-> <<"AttributeError">>]

\* (the fallback for an empty tag name forgotten)
get_current_tag_name_nofallback ==
    LET formatted == format(package, config.tag_name) IN
    IF ~formatted.ok
    THEN [ok |-> FALSE, exc |-> Err("ReleaseError", <<"tag_name">>)]
    ELSE [ok |-> TRUE, value |-> formatted.value]

\* (the name made to differ from the tags the repository holds)
get_current_tag_name_fresh ==
    LET formatted == format(package, config.tag_name) IN
    IF ~formatted.ok
    THEN [ok |-> FALSE, exc |-> Err("ReleaseError", <<"tag_name">>)]
    ELSE IF formatted.value = <<>> \/ formatted.value \in repo_tags
         THEN [ok |-> TRUE, value |-> <<"unversioned">>]
         ELSE [ok |-> TRUE, value |-> formatted.value]

\* (a template that fails to format falling back like an empty tag name)
get_current_tag_name_soft ==
    LET formatted == format(package, config.tag_name) IN
    IF ~formatted.ok \/ formatted.value = <<>>
    THEN [ok |-> TRUE, value |-> <<"unversioned">>]
    ELSE [ok |-> TRUE, value |-> formatted.value]

\* lines 267-275
get_current_tag_name ==
    LET formatted == format(package, config.tag_name) IN
    IF ~formatted.ok
    THEN [ok |-> FALSE, exc |-> Err("ReleaseError", <<"tag_name">>)]
    ELSE IF formatted.value = <<>>
         THEN [ok |-> TRUE, value |-> <<"unversioned">>]
         ELSE [ok |-> TRUE, value |-> formatted.value]

\* lines 267-275: a call of get_current_tag_name by a client
call_get_current_tag_name ==
    /\ Callable
    /\ LET tag == get_current_tag_name IN
       /\ raised' = IF tag.ok THEN NoError ELSE tag.exc
       /\ returned' = IF tag.ok THEN Return(tag.value) ELSE NoReturn
    /\ frame' = [op |-> "get_current_tag_name"]
    /\ log' = <<>>
    /\ pc' = "done"
    /\ UNCHANGED <<fields, repo_tags, files>>

\* (the adapter used without the assertion)
vcs_asserted_unchecked == TRUE

\* lines 220, 261, 319: assert self.vcs
vcs_asserted == vcs

\* -------------------------------------------------------------- pre_release
\* The uuids a package may declare ("" for none)
Uuids == {"", "A", "B"}

\* A released package
Released(version, uuid) ==
    [version |-> version, uuid |-> uuid, revision |-> <<"rev", version>>]

\* iter_packages: what the release path may hold, one package a version
Listings ==
    {{Released(v, u[v]) : v \in V} : V \in SUBSET (1..MaxVersion),
                                     u \in [1..MaxVersion -> Uuids]}

\* (sorted without reverse=True)
RECURSIVE sorted_by_version_asc(_)
sorted_by_version_asc(S) ==
    IF S = {} THEN <<>>
    ELSE LET p == CHOOSE p \in S : \A q \in S : p.version <= q.version
         IN <<p>> \o sorted_by_version_asc(S \ {p})

\* lines 239, 298: sorted(it, key=lambda x: x.version, reverse=True)
RECURSIVE sorted_by_version(_)
sorted_by_version(S) ==
    IF S = {} THEN <<>>
    ELSE LET p == CHOOSE p \in S : \A q \in S : q.version <= p.version
         IN <<p>> \o sorted_by_version(S \ {p})

\* (the uuid compared with that of every released package)
uuid_mismatch_any(pkg, packages) ==
    /\ pkg.uuid # ""
    /\ \E i \in DOMAIN packages :
          packages[i].uuid # "" /\ packages[i].uuid # pkg.uuid

\* lines 243-245: the uuid check fails
uuid_mismatch(pkg, packages) ==
    /\ pkg.uuid # "" /\ packages # <<>>
    /\ LET latest_package == packages[1] IN
       latest_package.uuid # "" /\ latest_package.uuid # pkg.uuid

\* lines 251-257: the loop stops in its first iteration, raising when the
\* first package is newer and leaving (break) when it is not; the result
\* is the package the error cites, if any
newer_release(pkg, packages) ==
    IF packages # <<>> /\ packages[1].version > pkg.version
    THEN <<packages[1]>>
    ELSE <<>>

\* lines 212-217: the call, and the test of the release path
pre_release(path_exists) ==
    /\ Callable
    /\ frame' = [op |-> "pre_release"]
    /\ log' = <<[call |-> "os.path.exists", result |-> path_exists]>>
    /\ returned' = NoReturn
    /\ IF path_exists
       THEN raised' = NoError /\ pc' = "pre_release_repostate"
       ELSE /\ raised' = Err("ReleaseError", <<"release_path">>)
            /\ pc' = "done"
    /\ UNCHANGED <<fields, repo_tags, files>>

\* lines 219-223: the state of the repository
pre_release_repostate(outcome) ==
    /\ pc = "pre_release_repostate"
    /\ IF ~vcs_asserted
       THEN /\ raised' = Err("AssertionError", <<>>)
            /\ pc' = "done"
            /\ UNCHANGED log
       ELSE LET called == Append(log, [call |-> "vcs.validate_repostate",
                                       outcome |-> outcome])
            IN
            CASE outcome = "ok" ->
                   /\ log' = called
                   /\ pc' = "pre_release_tag"
                   /\ UNCHANGED raised
              [] outcome # "ok" /\ suppressed(outcome) ->
                   /\ log' = Append(called, print_warning(outcome))
                   /\ pc' = "pre_release_tag"
                   /\ UNCHANGED raised
              [] outcome # "ok" /\ ~suppressed(outcome) ->
                   /\ log' = called
                   /\ raised' = Err(outcome, <<"validate_repostate">>)
                   /\ pc' = "done"
    /\ UNCHANGED <<fields, repo_tags, files, frame, returned>>

\* (the config setting check_tag not consulted)
check_existing_tag_unconditional == ~ignore_existing_tag

\* line 226: the tag of the current version is looked for
check_existing_tag == config.check_tag /\ ~ignore_existing_tag

\* (a tag the adapter could not look for taken to exist)
tag_exists_closed(outcome, tag_name) ==
    IF outcome = "ok" THEN tag_name \in repo_tags ELSE TRUE

\* lines 228-230: tag_exists after the scope: the adapter's answer, or the
\* initial False when the call raised
tag_exists_after(outcome, tag_name) ==
    IF outcome = "ok" THEN tag_name \in repo_tags ELSE FALSE

\* lines 225-236: the tag of the current version
pre_release_tag(outcome) ==
    /\ pc = "pre_release_tag"
    /\ IF check_existing_tag
       THEN LET tag == get_current_tag_name IN
            IF ~tag.ok
            THEN /\ raised' = tag.exc
                 /\ pc' = "done"
                 /\ UNCHANGED <<log, frame>>
            ELSE LET called == Append(log, [call |-> "vcs.tag_exists",
                                            tag_name |-> tag.value,
                                            outcome |-> outcome])
                     tag_exists == tag_exists_after(outcome, tag.value)
                 IN
                 /\ frame' = [op |-> "pre_release", tag_name |-> tag.value,
                              tag_exists |-> tag_exists]
                 /\ IF outcome # "ok" /\ ~suppressed(outcome)
                    THEN /\ log' = called
                         /\ raised' = Err(outcome, <<"tag_exists">>)
                         /\ pc' = "done"
                    ELSE /\ log' = IF outcome = "ok" THEN called
                                   ELSE Append(called, print_warning(outcome))
                         /\ IF tag_exists
                            THEN /\ raised' = Err("ReleaseError",
                                                  <<"already tagged">>)
                                 /\ pc' = "done"
                            ELSE /\ pc' = "pre_release_packages"
                                 /\ UNCHANGED raised
       ELSE /\ pc' = "pre_release_packages"
            /\ UNCHANGED <<log, frame, raised>>
    /\ UNCHANGED <<fields, repo_tags, files, returned>>

\* (the newer versions looked for before the uuid is compared)
pre_release_packages_newer_first(listing) ==
    /\ pc = "pre_release_packages"
    /\ LET packages == sorted_by_version(listing) IN
       /\ log' = Append(log, [call |-> "iter_packages",
                              result |-> listing])
       /\ frame' = [op |-> "pre_release", packages |-> packages]
       /\ pc' = "done"
       /\ IF ensure_latest /\ newer_release(package, packages) # <<>>
          THEN /\ raised' = Err("ReleaseError",
                                <<"newer">> \o
                                newer_release(package, packages))
               /\ UNCHANGED returned
          ELSE IF uuid_mismatch(package, packages)
          THEN /\ raised' = Err("ReleaseError", <<"UUID mismatch">>)
               /\ UNCHANGED returned
          ELSE /\ returned' = Return(None)
               /\ UNCHANGED raised
    /\ UNCHANGED <<fields, repo_tags, files>>

\* lines 238-257: the released packages, the uuid and the newer versions
pre_release_packages(listing) ==
    /\ pc = "pre_release_packages"
    /\ LET packages == sorted_by_version(listing) IN
       /\ log' = Append(log, [call |-> "iter_packages",
                              result |-> listing])
       /\ frame' = [op |-> "pre_release", packages |-> packages]
       /\ pc' = "done"
       /\ IF uuid_mismatch(package, packages)
          THEN /\ raised' = Err("ReleaseError", <<"UUID mismatch">>)
               /\ UNCHANGED returned
          ELSE IF ensure_latest /\ newer_release(package, packages) # <<>>
          THEN /\ raised' = Err("ReleaseError",
                                <<"newer">> \o
                                newer_release(package, packages))
               /\ UNCHANGED returned
          ELSE /\ returned' = Return(None)
               /\ UNCHANGED raised
    /\ UNCHANGED <<fields, repo_tags, files>>

\* ------------------------------------------------------------- post_release
ReleaseMessages == {"", "message"}

\* lines 259-265
post_release(release_message, outcome) ==
    /\ Callable
    /\ LET tag == get_current_tag_name
           called == <<[call |-> "vcs.create_release_tag",
                        tag_name |-> tag.value,
                        message |-> release_message,
                        outcome |-> outcome]>>
       IN
       /\ pc' = "done"
       /\ frame' = [op |-> "post_release"]
       /\ IF ~tag.ok
          THEN /\ raised' = tag.exc
               /\ log' = <<>>
               /\ returned' = NoReturn
               /\ UNCHANGED repo_tags
          ELSE IF ~vcs_asserted
          THEN /\ raised' = Err("AssertionError", <<>>)
               /\ log' = <<>>
               /\ returned' = NoReturn
               /\ UNCHANGED repo_tags
          ELSE CASE outcome = "ok" ->
                      /\ log' = called
                      /\ repo_tags' = repo_tags \cup {tag.value}
                      /\ raised' = NoError
                      /\ returned' = Return(None)
                 [] outcome # "ok" /\ suppressed(outcome) ->
                      /\ log' = Append(called, print_warning(outcome))
                      /\ raised' = NoError
                      /\ returned' = Return(None)
                      /\ UNCHANGED repo_tags
                 [] outcome # "ok" /\ ~suppressed(outcome) ->
                      /\ log' = called
                      /\ raised' = Err(outcome, <<"create_release_tag">>)
                      /\ returned' = NoReturn
                      /\ UNCHANGED repo_tags
    /\ UNCHANGED <<fields, files>>

\* The tags the repository may hold when the orchestrator is constructed:
\* none, or one of the tags a template can give the package
RepoTags(pkg) == {{}, {<<"unversioned">>}, {str(pkg.version)}}

\* The uuid of the package being released (a released package may declare
\* the same one, another one or none)
CurrentUuids == {"", "A"}

InitRelease ==
    /\ Fresh
    /\ vcs \in BOOLEAN
    /\ ensure_latest \in BOOLEAN
    /\ skip_errors \in BOOLEAN
    /\ ignore_existing_tag \in BOOLEAN
    /\ verbose = FALSE
    /\ package \in [num_variants : {1}, version : 1..MaxVersion,
                    uuid : CurrentUuids]
    /\ hooks = <<>>
    /\ config \in [check_tag : BOOLEAN, tag_name : TagTemplates,
                   max_package_changelog_chars : {0}]
    /\ repo_tags \in RepoTags(package)
    /\ files = <<>>

NextRelease ==
    \/ call_get_current_tag_name
    \/ \E path_exists \in BOOLEAN : pre_release(path_exists)
    \/ \E outcome \in VcsOutcomes : pre_release_repostate(outcome)
    \/ \E outcome \in VcsOutcomes : pre_release_tag(outcome)
    \/ \E listing \in Listings : pre_release_packages(listing)
    \/ \E release_message \in ReleaseMessages, outcome \in VcsOutcomes :
          post_release(release_message, outcome)

SpecRelease == InitRelease /\ [][NextRelease]_vars

\* ------------------------------------------------------ create_build_context
\* BuildType
BuildTypes == {"local", "central"}

\* The build paths the callers pass
BuildPaths == {"build", "build/variant"}

\* ResolverStatus: how a resolve may end
ResolverStatus == {"solved", "failed", "aborted"}

\* What ResolvedContext(...) does: resolve to a status, or raise
Resolutions == ResolverStatus \cup {"RezSystemError"}

\* What context.save does: write the file, or raise
SaveOutcomes == {"ok", "IOError"}

\* lines 187-188: variant.get_requires(build_requires=True,
\* private_build_requires=True)
get_requires(variant) == <<"requires", variant.index>>

\* lines 192-195: the package search path
packages_path(build_type) ==
    IF build_type = "local" THEN "packages_path"
    ELSE "nonlocal_packages_path"

\* line 204: os.path.join(build_path, "build.rxt")
rxt_filepath(build_path) == <<build_path, "build.rxt">>

\* the file system after a file is written
written(fs, path, content) ==
    [p \in DOMAIN fs \cup {path} |-> IF p = path THEN content ELSE fs[p]]

\* lines 185-201: the request, the search path and the resolve
create_build_context(variant, build_type, build_path, resolution) ==
    /\ Callable
    /\ LET request == get_requires(variant)
           context == [request |-> request,
                       package_paths |-> packages_path(build_type),
                       building |-> TRUE,
                       status |-> resolution]
           called == <<[call |-> "ResolvedContext", request |-> request,
                        package_paths |-> packages_path(build_type),
                        building |-> TRUE, result |-> resolution]>>
       IN
       IF resolution \in ResolverStatus
       THEN /\ frame' = [op |-> "create_build_context",
                         variant |-> variant, build_type |-> build_type,
                         build_path |-> build_path, context |-> context]
            /\ log' = IF verbose
                      THEN Append(called, [call |-> "context.print_info"])
                      ELSE called
            /\ raised' = NoError
            /\ pc' = "context_save"
       ELSE /\ frame' = [op |-> "create_build_context",
                         variant |-> variant, build_type |-> build_type,
                         build_path |-> build_path]
            /\ log' = called
            /\ raised' = Err(resolution, <<>>)
            /\ pc' = "done"
    /\ returned' = NoReturn
    /\ UNCHANGED <<fields, repo_tags, files>>

\* (the status tested first: a failed context is not saved)
create_build_context_save_solved_only(outcome) ==
    /\ pc = "context_save"
    /\ pc' = "context_status"
    /\ IF frame.context.status = "solved"
       THEN /\ files' = written(files, rxt_filepath(frame.build_path),
                                frame.context)
            /\ log' = Append(log, [call |-> "context.save",
                                   path |-> rxt_filepath(frame.build_path),
                                   outcome |-> "ok"])
       ELSE UNCHANGED <<files, log>>
    /\ UNCHANGED <<fields, repo_tags, frame, raised, returned>>

\* lines 203-205: the context is saved
create_build_context_save(outcome) ==
    /\ pc = "context_save"
    /\ log' = Append(log, [call |-> "context.save",
                           path |-> rxt_filepath(frame.build_path),
                           outcome |-> outcome])
    /\ IF outcome = "ok"
       THEN /\ files' = written(files, rxt_filepath(frame.build_path),
                                frame.context)
            /\ pc' = "context_status"
            /\ UNCHANGED raised
       ELSE /\ raised' = Err(outcome, <<>>)
            /\ pc' = "done"
            /\ UNCHANGED files
    /\ UNCHANGED <<fields, repo_tags, frame, returned>>

\* lines 207-209: the status decides between the error and the result
create_build_context_status ==
    /\ pc = "context_status"
    /\ log' = Append(log, [call |-> "context.status"])
    /\ pc' = "done"
    /\ IF frame.context.status # "solved"
       THEN /\ raised' = Err("BuildContextResolveError", <<frame.context>>)
            /\ UNCHANGED returned
       ELSE /\ returned' = Return(<<frame.context,
                                    rxt_filepath(frame.build_path)>>)
            /\ UNCHANGED raised
    /\ UNCHANGED <<fields, repo_tags, files, frame>>

InitContext ==
    /\ Fresh
    /\ vcs = FALSE
    /\ ensure_latest = TRUE
    /\ skip_errors = FALSE
    /\ ignore_existing_tag = FALSE
    /\ verbose \in BOOLEAN
    /\ package \in [num_variants : 1..MaxVariants, version : {1},
                    uuid : {""}]
    /\ hooks = <<>>
    /\ config = DefaultConfig
    /\ repo_tags = {}
    /\ files = <<>>

NextContext ==
    \/ \E i \in DOMAIN iter_variants(package), build_type \in BuildTypes,
          build_path \in BuildPaths, resolution \in Resolutions :
          create_build_context(iter_variants(package)[i], build_type,
                               build_path, resolution)
    \/ \E outcome \in SaveOutcomes : create_build_context_save(outcome)
    \/ create_build_context_status

SpecContext == InitContext /\ [][NextContext]_vars

\* ----------------------------------------------------- get_previous_release
\* (a release of the current version taken for an older one)
RECURSIVE first_older_or_equal(_, _)
first_older_or_equal(packages, version) ==
    IF packages = <<>> THEN None
    ELSE IF Head(packages).version <= version THEN Some(Head(packages))
    ELSE first_older_or_equal(Tail(packages), version)

\* lines 300-303: the first package of the list older than the current one
RECURSIVE first_older(_, _)
first_older(packages, version) ==
    IF packages = <<>> THEN None
    ELSE IF Head(packages).version < version THEN Some(Head(packages))
    ELSE first_older(Tail(packages), version)

\* lines 295-303, given what iter_packages yields
get_previous_release(listing) ==
    first_older(sorted_by_version(listing), package.version)

\* The released packages as get_previous_release reads them: it reads no
\* uuid, so none is declared
ListingsNoUuid == {{Released(v, "") : v \in V} : V \in SUBSET (1..MaxVersion)}

\* lines 295-303: a call of get_previous_release by a client
call_get_previous_release(listing) ==
    /\ Callable
    /\ frame' = [op |-> "get_previous_release"]
    /\ log' = <<[call |-> "iter_packages", result |-> listing]>>
    /\ raised' = NoError
    /\ returned' = Return(get_previous_release(listing))
    /\ pc' = "done"
    /\ UNCHANGED <<fields, repo_tags, files>>

\* --------------------------------------------------------- get_release_data

\* The characters of the changelogs
Alphabet == <<"a", "b", "c", "d">>

\* The changelogs the adapter may return: a text of every length up to
\* MaxChangelogLen, and a run of dots of every such length
ramp(n) == [i \in 1..n |-> Alphabet[((i - 1) % Len(Alphabet)) + 1]]
dots(n) == [i \in 1..n |-> "."]
Changelogs == {ramp(n) : n \in 0..MaxChangelogLen}
              \cup {dots(n) : n \in 0..MaxChangelogLen}

\* line 324: what get_current_revision returns
CurrentRevision == <<"rev", "current">>

\* line 332: the marker appended to a truncated changelog
Ellipsis == <<".", ".", ".">>

\* line 331: the length of the marker, which a changelog may exceed maxlen
\* by without being truncated
EllipsisLen == 3

\* (truncating as soon as the changelog is longer than maxlen)
truncated_no_slack(changelog, maxlen) ==
    IF maxlen # 0 /\ changelog # None /\ changelog[1] # <<>>
       /\ Len(changelog[1]) > maxlen
    THEN Some(SubSeq(changelog[1], 1, maxlen) \o Ellipsis)
    ELSE changelog

\* lines 330-332: the changelog (None when it was not fetched) truncated
truncated(changelog, maxlen) ==
    IF maxlen # 0 /\ changelog # None /\ changelog[1] # <<>>
       /\ Len(changelog[1]) > maxlen + EllipsisLen
    THEN Some(SubSeq(changelog[1], 1, maxlen) \o Ellipsis)
    ELSE changelog

\* lines 305-321: the previous release, and the locals
get_release_data(listing) ==
    /\ Callable
    /\ LET previous_package == get_previous_release(listing)
           previous_version ==
               IF previous_package # None
               THEN Some(previous_package[1].version) ELSE None
           previous_revision ==
               IF previous_package # None
               THEN Some(previous_package[1].revision) ELSE None
       IN
       /\ log' = <<[call |-> "iter_packages", result |-> listing]>>
       /\ IF ~vcs_asserted
          THEN /\ frame' = [op |-> "get_release_data",
                            previous_version |-> previous_version,
                            previous_revision |-> previous_revision]
               /\ raised' = Err("AssertionError", <<>>)
               /\ pc' = "done"
          ELSE /\ frame' = [op |-> "get_release_data",
                            previous_version |-> previous_version,
                            previous_revision |-> previous_revision,
                            revision |-> None, changelog |-> None]
               /\ raised' = NoError
               /\ pc' = "release_data_revision"
    /\ returned' = NoReturn
    /\ UNCHANGED <<fields, repo_tags, files>>

\* (one scope around both calls: a skipped error of the first call leaves
\* the scope, and the changelog is not asked for)
get_release_data_revision_one_scope(outcome) ==
    /\ pc = "release_data_revision"
    /\ LET called == Append(log, [call |-> "vcs.get_current_revision",
                                  outcome |-> outcome])
       IN
       CASE outcome = "ok" ->
              /\ log' = called
              /\ frame' = [frame EXCEPT !.revision = Some(CurrentRevision)]
              /\ pc' = "release_data_changelog"
              /\ UNCHANGED <<raised, returned>>
         [] outcome # "ok" /\ suppressed(outcome) ->
              /\ log' = Append(called, print_warning(outcome))
                        \o <<[call |-> "vcs.name"]>>
              /\ returned' = Return(
                     [vcs |-> "vcs.name",
                      revision |-> None,
                      changelog |-> None,
                      previous_version |-> frame.previous_version,
                      previous_revision |-> frame.previous_revision])
              /\ pc' = "done"
              /\ UNCHANGED <<frame, raised>>
         [] outcome # "ok" /\ ~suppressed(outcome) ->
              /\ log' = called
              /\ raised' = Err(outcome, <<"get_current_revision">>)
              /\ pc' = "done"
              /\ UNCHANGED <<frame, returned>>
    /\ UNCHANGED <<fields, repo_tags, files>>

\* lines 323-324: the current revision
get_release_data_revision(outcome) ==
    /\ pc = "release_data_revision"
    /\ LET called == Append(log, [call |-> "vcs.get_current_revision",
                                  outcome |-> outcome])
       IN
       CASE outcome = "ok" ->
              /\ log' = called
              /\ frame' = [frame EXCEPT !.revision = Some(CurrentRevision)]
              /\ pc' = "release_data_changelog"
              /\ UNCHANGED raised
         [] outcome # "ok" /\ suppressed(outcome) ->
              /\ log' = Append(called, print_warning(outcome))
              /\ pc' = "release_data_changelog"
              /\ UNCHANGED <<frame, raised>>
         [] outcome # "ok" /\ ~suppressed(outcome) ->
              /\ log' = called
              /\ raised' = Err(outcome, <<"get_current_revision">>)
              /\ pc' = "done"
              /\ UNCHANGED frame
    /\ UNCHANGED <<fields, repo_tags, files, returned>>

\* lines 325-338: the changelog, its truncation and the record
get_release_data_changelog(outcome, text) ==
    /\ pc = "release_data_changelog"
    /\ LET called == Append(log, [call |-> "vcs.get_changelog",
                                  previous_revision |->
                                      frame.previous_revision,
                                  outcome |-> outcome,
                                  result |-> IF outcome = "ok"
                                             THEN Some(text) ELSE None])
           changelog == IF outcome = "ok" THEN Some(text) ELSE None
           maxlen == config.max_package_changelog_chars
       IN
       IF outcome # "ok" /\ ~suppressed(outcome)
       THEN /\ log' = called
            /\ raised' = Err(outcome, <<"get_changelog">>)
            /\ UNCHANGED <<frame, returned>>
       ELSE /\ log' = (IF outcome = "ok" THEN called
                       ELSE Append(called, print_warning(outcome)))
                      \o <<[call |-> "vcs.name"]>>
            /\ frame' = [frame EXCEPT
                            !.changelog = truncated(changelog, maxlen)]
            /\ returned' = Return(
                   [vcs |-> "vcs.name",
                    revision |-> frame.revision,
                    changelog |-> truncated(changelog, maxlen),
                    previous_version |-> frame.previous_version,
                    previous_revision |-> frame.previous_revision])
            /\ UNCHANGED raised
    /\ pc' = "done"
    /\ UNCHANGED <<fields, repo_tags, files>>

InitData ==
    /\ Fresh
    /\ vcs \in BOOLEAN
    /\ ensure_latest = TRUE
    /\ skip_errors \in BOOLEAN
    /\ ignore_existing_tag = FALSE
    /\ verbose = FALSE
    /\ package \in [num_variants : {1}, version : 1..MaxVersion,
                    uuid : {""}]
    /\ hooks = <<>>
    /\ config \in [check_tag : {TRUE}, tag_name : {"{version}"},
                   max_package_changelog_chars : 0..MaxLen]
    /\ repo_tags = {}
    /\ files = <<>>

NextData ==
    \/ \E listing \in ListingsNoUuid : call_get_previous_release(listing)
    \/ \E listing \in ListingsNoUuid : get_release_data(listing)
    \/ \E outcome \in VcsOutcomes : get_release_data_revision(outcome)
    \/ \E outcome \in VcsOutcomes, text \in Changelogs :
          get_release_data_changelog(outcome, text)

SpecData == InitData /\ [][NextData]_vars

\* ------------------------------------------------ the orchestrator as a whole
\* One orchestrator, with or without an adapter, on which a client calls
\* every operation in any order; the repository's tags and the files written
\* outlast each call.
InitOrchestrator ==
    /\ Fresh
    /\ vcs \in BOOLEAN
    /\ ensure_latest = TRUE
    /\ skip_errors \in BOOLEAN
    /\ ignore_existing_tag = FALSE
    /\ verbose = FALSE
    /\ package = [num_variants |-> 2, version |-> 2, uuid |-> ""]
    /\ hooks = LoadedHooks(1)
    /\ config \in [check_tag : {TRUE}, tag_name : {"{version}", "{bad}"},
                   max_package_changelog_chars : {1}]
    /\ repo_tags = {}
    /\ files = <<>>

NextOrchestrator ==
    \/ \E variants \in SUBSET (0..1) : visit_variants(variants)
    \/ \E outcome \in FuncOutcomes : visit_variants_iter(outcome)
    \/ visit_variants_return
    \/ \E hook_event \in HookEvents : run_hooks(hook_event)
    \/ \E outcome \in HookOutcomes : run_hooks_iter(outcome)
    \/ run_hooks_return
    \/ \E resolution \in Resolutions :
          create_build_context(iter_variants(package)[1], "local", "build",
                               resolution)
    \/ \E outcome \in SaveOutcomes : create_build_context_save(outcome)
    \/ create_build_context_status
    \/ call_get_current_tag_name
    \/ \E listing \in ListingsNoUuid : call_get_previous_release(listing)
    \/ \E path_exists \in BOOLEAN : pre_release(path_exists)
    \/ \E outcome \in VcsOutcomes : pre_release_repostate(outcome)
    \/ \E outcome \in VcsOutcomes : pre_release_tag(outcome)
    \/ \E listing \in ListingsNoUuid : pre_release_packages(listing)
    \/ \E release_message \in ReleaseMessages, outcome \in VcsOutcomes :
          post_release(release_message, outcome)
    \/ \E listing \in ListingsNoUuid : get_release_data(listing)
    \/ \E outcome \in VcsOutcomes : get_release_data_revision(outcome)
    \/ \E outcome \in VcsOutcomes, text \in {ramp(0), ramp(MaxChangelogLen)} :
          get_release_data_changelog(outcome, text)

SpecOrchestrator == InitOrchestrator /\ [][NextOrchestrator]_vars

\* ------------------------------------------------------ create_build_process
\* A str, as the sequence of its characters
Local == <<"l", "o", "c", "a", "l">>
Remote == <<"r", "e", "m", "o", "t", "e">>
Bogus == <<"b", "o", "g", "u", "s">>

\* lines 16-19: the build process plugins the plugin manager has registered
get_build_process_types == {Local, Remote}

\* The process types a caller may ask for: the registered ones, one that is
\* not registered, and the empty str
ProcessTypeArgs == get_build_process_types \cup {Bogus, <<>>}

\* The working directory, and the adapters a caller may pass: none, one of
\* the working directory, one of another directory
WorkingDir == "working_dir"
VcsArgs == {None, Some([path |-> WorkingDir]), Some([path |-> "elsewhere"])}

\* a in b for two str: a is a substring of b
str_in(a, b) ==
    \E i \in 0..(Len(b) - Len(a)) : SubSeq(b, i + 1, i + Len(a)) = a

\* plugin_manager.get_plugin_class('build_process', name): the class of a
\* registered plugin, an error for any other name
get_plugin_class(name) ==
    IF name \in get_build_process_types
    THEN [ok |-> TRUE, cls |-> <<"class", name>>]
    ELSE [ok |-> FALSE, exc |-> Err("RezPluginError", <<name>>)]

\* lines 22-38, with the constructor of lines 61-97 that line 32 calls
create_build_process(process_type, vcs_arg, flags) ==
    /\ Callable
    /\ frame' = [op |-> "create_build_process",
                 process_type |-> process_type,
                 working_dir |-> WorkingDir, build_system |-> "build_system",
                 vcs |-> vcs_arg, flags |-> flags]
    /\ pc' = "done"
    /\ LET types == <<[call |-> "get_build_process_types"]>>
           lookup == Append(types, [call |-> "get_plugin_class",
                                    name |-> process_type])
           plugin == get_plugin_class(process_type)
       IN
       IF ~str_in(process_type, process_type)
       THEN /\ raised' = Err("BuildProcessError",
                             <<"Unknown build process", process_type>>)
            /\ log' = types
            /\ returned' = NoReturn
            /\ UNCHANGED fields
       ELSE IF ~plugin.ok
       THEN /\ raised' = plugin.exc
            /\ log' = lookup
            /\ returned' = NoReturn
            /\ UNCHANGED fields
       ELSE /\ log' = Append(lookup,
                             [call |-> "cls", cls |-> plugin.cls,
                              working_dir |-> WorkingDir,
                              build_system |-> "build_system",
                              vcs |-> vcs_arg, flags |-> flags])
            /\ IF vcs_arg # None /\ vcs_arg[1].path # WorkingDir
               THEN /\ raised' = Err("BuildProcessError",
                                     <<"mismatched VCS instance">>)
                    /\ returned' = NoReturn
                    /\ UNCHANGED fields
               ELSE /\ raised' = NoError
                    /\ returned' = Return(plugin.cls)
                    /\ vcs' = (vcs_arg # None)
                    /\ ensure_latest' = flags.ensure_latest
                    /\ skip_errors' = flags.skip_errors
                    /\ ignore_existing_tag' = flags.ignore_existing_tag
                    /\ verbose' = flags.verbose
                    /\ UNCHANGED <<package, hooks, config>>
    /\ UNCHANGED <<repo_tags, files>>

\* No build process was created yet; the fields are those of the defaults
\* of the signature of lines 22-24
InitCreate ==
    /\ Fresh
    /\ vcs = FALSE
    /\ ensure_latest = TRUE
    /\ skip_errors = FALSE
    /\ ignore_existing_tag = FALSE
    /\ verbose = FALSE
    /\ package = DefaultPackage
    /\ hooks = <<>>
    /\ config = DefaultConfig
    /\ repo_tags = {}
    /\ files = <<>>

NextCreate ==
    \E process_type \in ProcessTypeArgs, vcs_arg \in VcsArgs,
       flags \in [ensure_latest : BOOLEAN, skip_errors : BOOLEAN,
                  ignore_existing_tag : BOOLEAN, verbose : BOOLEAN] :
       create_build_process(process_type, vcs_arg, flags)

SpecCreate == InitCreate /\ [][NextCreate]_vars

\* ===================================================================
\* Properties of visit_variants
\* ===================================================================
VariantIndices(pkg) ==
    {iter_variants(pkg)[i].index : i \in DOMAIN iter_variants(pkg)}

IsFuncCall(e) == e.call = "func"
FuncCalls == SelectSeq(log, IsFuncCall)

InVisit == frame.op = "visit_variants"

\* C1: a non-empty filter holding an index the package does not have makes
\* visit_variants raise BuildError, naming the invalid indices, without the
\* per-variant function having been called for any variant.
C1_InvalidFilterRaisesBeforeAnyVisit ==
    (InVisit /\ frame.variants # {}
        /\ \E i \in frame.variants : i \notin VariantIndices(package))
    => /\ pc = "done"
       /\ raised.type = "BuildError"
       /\ raised.detail = sorted(frame.variants \ VariantIndices(package))
       /\ ~returned.some
       /\ log = <<>>

\* a filter mixing valid and invalid indices has been rejected
C1_Witness ==
    /\ InVisit /\ pc = "done"
    /\ raised.type = "BuildError"
    /\ \E i \in frame.variants : i \in VariantIndices(package)
    /\ \E i \in frame.variants : i \notin VariantIndices(package)

\* C2: with a valid filter (the empty one selecting every variant) and a
\* per-variant function that never fails, visit_variants returns, having
\* called the function once on each selected variant and on no other, in
\* ascending index order; it returns the number of calls and their return
\* values in call order; with the empty filter the count is the number of
\* variants.
Selected ==
    IF frame.variants = {} THEN VariantIndices(package) ELSE frame.variants

C2_VisitsSelectedInOrder ==
    (InVisit /\ pc = "done"
        /\ frame.variants \subseteq VariantIndices(package)
        /\ \A i \in DOMAIN FuncCalls : FuncCalls[i].outcome.ok)
    => /\ returned.some
       /\ raised = NoError
       /\ Len(FuncCalls) = Cardinality(Selected)
       /\ \A i \in DOMAIN FuncCalls :
             FuncCalls[i].index = sorted(Selected)[i]
       /\ returned.value[1] = Len(FuncCalls)
       /\ Len(returned.value[2]) = returned.value[1]
       /\ \A i \in DOMAIN FuncCalls :
             returned.value[2][i] = FuncCalls[i].outcome.value
       /\ frame.variants = {} => returned.value[1] = package.num_variants

\* a filter that selects two variants and skips one has been walked
C2_Witness ==
    /\ InVisit /\ pc = "done" /\ returned.some
    /\ frame.variants # {}
    /\ returned.value[1] = 2
    /\ returned.value[2][1] # returned.value[2][2]
    /\ \E i \in DOMAIN log : log[i].call = "_print_header"

\* ===================================================================
\* Properties of run_hooks
\* ===================================================================
IsHookCall(e) == e.call = "hook"
HookCalls == SelectSeq(log, IsHookCall)

InHooks == frame.op = "run_hooks"

\* C5: when the callback of a hook raises a cancelling error, run_hooks
\* ends by raising a ReleaseError that names the event and that hook,
\* whatever skip_errors is, and no later hook is called.
C5_CancellingHookVetoes ==
    InHooks =>
    \A i \in DOMAIN HookCalls :
        isinstance(HookCalls[i].outcome, "ReleaseHookCancellingError")
        => /\ i = Len(HookCalls)
           /\ pc = "done"
           /\ ~returned.some
           /\ raised.type = "ReleaseError"
           /\ raised.detail.hook = HookCalls[i].hook
           /\ raised.detail.label = frame.hook_event.label
           /\ raised.detail.noun = frame.hook_event.noun

\* with skip_errors set, the second of three hooks has vetoed a release
C5_Witness ==
    /\ InHooks /\ skip_errors /\ Len(hooks) = 3
    /\ frame.hook_event.func_name = "pre_release"
    /\ Len(HookCalls) = 2
    /\ HookCalls[2].outcome = "ReleaseHookCancellingError"
    /\ raised.type = "ReleaseError"

\* C6: a hook raising a domain error (RezError) that is not a cancelling
\* one is logged at debug level and does not stop run_hooks: every hook is
\* called, and run_hooks returns normally when no hook raises a cancelling
\* or a non-domain error.
C6_OrdinaryHookErrorsAreSkipped ==
    (InHooks /\ pc = "done"
        /\ \A i \in DOMAIN HookCalls :
              \/ HookCalls[i].outcome = "ok"
              \/ /\ isinstance(HookCalls[i].outcome, "RezError")
                 /\ ~isinstance(HookCalls[i].outcome,
                                "ReleaseHookCancellingError"))
    => /\ returned.some
       /\ raised = NoError
       /\ Len(HookCalls) = Len(hooks)

\* ===================================================================
\* Properties of pre_release and post_release
\* ===================================================================
InPreRelease == frame.op = "pre_release"
InPostRelease == frame.op = "post_release"

\* pre_release has ended after reading the released packages
PackagesRead ==
    /\ InPreRelease /\ pc = "done"
    /\ log[Len(log)].call = "iter_packages"

ReleasedSet == log[Len(log)].result
Newest(S) == CHOOSE p \in S : \A q \in S : q.version <= p.version

\* both the current package and the newest released one declare a uuid,
\* and the two differ
UuidClash ==
    /\ package.uuid # "" /\ ReleasedSet # {}
    /\ Newest(ReleasedSet).uuid # ""
    /\ Newest(ReleasedSet).uuid # package.uuid

\* C3: when the earlier checks pass, pre_release with ensure_latest fails
\* with a ReleaseError citing the newest released package exactly when some
\* released version is greater than the current one; without ensure_latest
\* it never fails for that reason.
C3_NewerReleaseBlocksIffEnsureLatest ==
    (PackagesRead /\ ~UuidClash) =>
    IF ensure_latest
       /\ \E p \in ReleasedSet : p.version > package.version
    THEN /\ raised = Err("ReleaseError", <<"newer", Newest(ReleasedSet)>>)
         /\ ~returned.some
    ELSE /\ raised = NoError
         /\ returned.some

\* current version 2 with 1 and 3 released: refused, citing 3
C3_Witness ==
    /\ PackagesRead /\ ensure_latest
    /\ package.version = 2
    /\ {p.version : p \in ReleasedSet} = {1, 3}
    /\ raised.type = "ReleaseError"
    /\ raised.detail[1] = "newer"
    /\ raised.detail[2].version = 3

\* C4: once the earlier checks have passed, pre_release fails with the
\* uuid ReleaseError exactly when the current package and the released
\* package of highest version both declare a uuid and the two differ,
\* whatever ensure_latest is; older released packages are not compared.
C4_UuidComparedWithNewestOnly ==
    PackagesRead =>
    (UuidClash <=> raised = Err("ReleaseError", <<"UUID mismatch">>))

\* the newest released package declares another uuid than the current one
C4_Witness ==
    /\ PackagesRead /\ ~ensure_latest
    /\ Cardinality(ReleasedSet) = 2
    /\ package.uuid = "A" /\ Newest(ReleasedSet).uuid = "B"
    /\ raised = Err("ReleaseError", <<"UUID mismatch">>)

\* C7: a ReleaseVCSError raised by validate_repostate (pre_release) or by
\* create_release_tag (post_release) is decided by skip_errors alone: when
\* set, the error is caught and printed as a warning, pre_release goes on
\* to its tag check and post_release returns without a tag created; when
\* not set, the error leaves the operation, which runs no later step.
C7_Step ==
    /\ (/\ pc = "pre_release_repostate"
        /\ Len(log') = Len(log) + 1 \/ Len(log') = Len(log) + 2
        /\ log'[Len(log) + 1].outcome = "ReleaseVCSError")
       => IF skip_errors
          THEN /\ log' = log \o <<log'[Len(log) + 1],
                                  print_warning("ReleaseVCSError")>>
               /\ pc' = "pre_release_tag"
               /\ raised' = NoError
          ELSE /\ Len(log') = Len(log) + 1
               /\ pc' = "done"
               /\ raised' = Err("ReleaseVCSError", <<"validate_repostate">>)
               /\ ~returned'.some
    /\ (/\ Callable /\ InPostRelease'
        /\ log' # <<>>
        /\ log'[1].outcome = "ReleaseVCSError")
       => /\ pc' = "done"
          /\ repo_tags' = repo_tags
          /\ IF skip_errors
             THEN /\ log' = <<log'[1], print_warning("ReleaseVCSError")>>
                  /\ raised' = NoError
                  /\ returned'.some
             ELSE /\ Len(log') = 1
                  /\ raised' = Err("ReleaseVCSError",
                                   <<"create_release_tag">>)
                  /\ ~returned'.some

\* C7: every step of pre_release and post_release treats a ReleaseVCSError
\* of validate_repostate or create_release_tag as skip_errors says.
C7_SkipErrorsDecidesVcsErrors == [][C7_Step]_vars

\* pre_release has skipped a failure of validate_repostate and is at its
\* tag check
C7_Witness ==
    /\ InPreRelease /\ skip_errors
    /\ pc = "pre_release_tag"
    /\ Len(log) = 3
    /\ log[2].call = "vcs.validate_repostate"
    /\ log[2].outcome = "ReleaseVCSError"
    /\ log[3] = print_warning("ReleaseVCSError")

\* C8: the scope suppresses ReleaseVCSError only, and only with
\* skip_errors: every other exception raised inside it, and every exception
\* when skip_errors is not set, leaves the operation as it was raised.
VcsCalls == {"vcs.validate_repostate", "vcs.tag_exists",
             "vcs.create_release_tag", "vcs.get_current_revision",
             "vcs.get_changelog"}

C8_ScopeSuppressesVcsErrorsOnly ==
    \A i \in DOMAIN log :
        /\ log[i].call = "print_warning"
           => /\ skip_errors
              /\ isinstance(log[i].skipped, "ReleaseVCSError")
        /\ (/\ log[i].call \in VcsCalls
            /\ log[i].outcome \in VcsErrors
            /\ ~skip_errors \/ ~isinstance(log[i].outcome, "ReleaseVCSError"))
           => /\ i = Len(log)
              /\ pc = "done"
              /\ raised.type = log[i].outcome
              /\ ~returned.some

\* with skip_errors set, a ReleaseError of the adapter has left pre_release
C8_Witness ==
    /\ InPreRelease /\ skip_errors /\ pc = "done"
    /\ log[Len(log)].call = "vcs.tag_exists"
    /\ log[Len(log)].outcome = "ReleaseError"
    /\ raised = Err("ReleaseError", <<"tag_exists">>)

\* ===================================================================
\* Properties of create_build_context
\* ===================================================================
InContext == frame.op = "create_build_context"

IsSave(e) == e.call = "context.save"
IsStatus(e) == e.call = "context.status"

\* C9: when the resolve has returned a context, create_build_context
\* writes it to <build_path>/build.rxt before it reads the status; it then
\* returns (context, path) exactly when the status is solved and raises
\* BuildContextResolveError with the context otherwise.  So it ends by
\* return or by BuildContextResolveError only with the context written.
C9_ContextSavedBeforeStatus ==
    InContext =>
    LET path == <<frame.build_path, "build.rxt">> IN
    /\ \A i \in DOMAIN log :
          IsStatus(log[i])
          => /\ i > 1 /\ IsSave(log[i - 1])
             /\ log[i - 1].path = path /\ log[i - 1].outcome = "ok"
             /\ path \in DOMAIN files
             /\ files[path] = frame.context
             /\ pc = "done"
             /\ IF frame.context.status = "solved"
                THEN /\ returned = Return(<<frame.context, path>>)
                     /\ raised = NoError
                ELSE /\ raised = Err("BuildContextResolveError",
                                     <<frame.context>>)
                     /\ ~returned.some
    /\ (pc = "done"
        /\ (returned.some \/ raised.type = "BuildContextResolveError"))
       => /\ IsStatus(log[Len(log)])
          /\ path \in DOMAIN files
          /\ files[path] = frame.context

\* a failed resolve has ended in BuildContextResolveError with the context
\* on disk, replacing the file of an earlier call
C9_Witness ==
    /\ InContext /\ pc = "done"
    /\ raised.type = "BuildContextResolveError"
    /\ frame.context.status = "failed"
    /\ frame.variant.index = 1
    /\ files[<<frame.build_path, "build.rxt">>] = frame.context
    /\ Cardinality(DOMAIN files) = 2

\* ===================================================================
\* Properties of get_release_data
\* ===================================================================
InData == frame.op = "get_release_data"

\* get_release_data has returned a record whose changelog the adapter
\* returned, under a positive max_package_changelog_chars
ChangelogFetched ==
    /\ InData /\ pc = "done" /\ returned.some
    /\ config.max_package_changelog_chars > 0
    /\ \E i \in DOMAIN log :
          log[i].call = "vcs.get_changelog" /\ log[i].outcome = "ok"

Fetched ==
    LET i == CHOOSE i \in DOMAIN log : log[i].call = "vcs.get_changelog"
    IN log[i].result[1]

\* C10 as claimed: the changelog of the record is the one the adapter
\* returned when its length is at most maxlen, and its first maxlen
\* characters followed by "..." when its length exceeds maxlen.
C10_TruncatedAboveMaxlen ==
    ChangelogFetched =>
    LET maxlen == config.max_package_changelog_chars IN
    returned.value.changelog =
        IF Len(Fetched) <= maxlen
        THEN <<Fetched>>
        ELSE <<SubSeq(Fetched, 1, maxlen) \o <<".", ".", ".">> >>

\* C10, amended: the changelog of the record is the one the adapter
\* returned when its length is at most maxlen + 3, and its first maxlen
\* characters followed by "..." when its length exceeds maxlen + 3 (so for
\* the length maxlen + 10).
C10_TruncatedAboveMaxlenPlus3 ==
    ChangelogFetched =>
    LET maxlen == config.max_package_changelog_chars IN
    returned.value.changelog =
        IF Len(Fetched) <= maxlen + 3
        THEN <<Fetched>>
        ELSE <<SubSeq(Fetched, 1, maxlen) \o <<".", ".", ".">> >>

\* a changelog of length maxlen + 10 has been cut to maxlen + 3 characters
C10_Witness ==
    /\ ChangelogFetched
    /\ Len(Fetched) = config.max_package_changelog_chars + 10
    /\ Fetched[1] = "a"
    /\ Len(returned.value.changelog[1])
          = config.max_package_changelog_chars + 3

\* ===================================================================
\* Properties of the tag check of pre_release
\* ===================================================================
IsTagExists(e) == e.call = "vcs.tag_exists"

\* pre_release is past its path and repository-state checks
PastRepostate ==
    /\ InPreRelease
    /\ \/ pc \in {"pre_release_tag", "pre_release_packages"}
       \/ /\ pc = "done"
          /\ raised.detail \notin {<<"release_path">>,
                                   <<"validate_repostate">>}
          /\ raised.type # "AssertionError"

\* the tag step of pre_release has run
PastTagStep ==
    PastRepostate /\ pc # "pre_release_tag"

\* C11 as claimed: past the path and repository-state checks, with
\* check_tag set and ignore_existing_tag not set, a repository that holds
\* the current tag name makes pre_release fail with a ReleaseError, whatever
\* skip_errors is; otherwise tag_exists is never called and an existing tag
\* does not block the release.
C11_ExistingTagAlwaysBlocks ==
    /\ (/\ PastTagStep /\ config.check_tag /\ ~ignore_existing_tag
        /\ get_current_tag_name.ok
        /\ get_current_tag_name.value \in repo_tags)
       => /\ pc = "done"
          /\ isinstance(raised.type, "ReleaseError")
          /\ ~returned.some
    /\ (InPreRelease /\ (ignore_existing_tag \/ ~config.check_tag))
       => /\ \A i \in DOMAIN log : ~IsTagExists(log[i])
          /\ raised.detail # <<"already tagged">>

\* C11, amended: past the path and repository-state checks, with check_tag
\* set and ignore_existing_tag not set, tag_exists is called with the
\* current tag name unless the tag template fails, and when it returns true
\* pre_release fails with the tag ReleaseError, whatever skip_errors is;
\* with ignore_existing_tag set or check_tag not set, tag_exists is never
\* called and an existing tag does not block the release.
C11_ReportedTagBlocks ==
    /\ (PastTagStep /\ config.check_tag /\ ~ignore_existing_tag)
       => \/ raised = Err("ReleaseError", <<"tag_name">>)
          \/ \E i \in DOMAIN log : IsTagExists(log[i])
    /\ InPreRelease =>
       \A i \in DOMAIN log :
          (/\ IsTagExists(log[i])
           /\ log[i].outcome = "ok"
           /\ log[i].tag_name \in repo_tags)
          => /\ i = Len(log)
             /\ pc = "done"
             /\ raised = Err("ReleaseError", <<"already tagged">>)
             /\ ~returned.some
    /\ (InPreRelease /\ (ignore_existing_tag \/ ~config.check_tag))
       => /\ \A i \in DOMAIN log : ~IsTagExists(log[i])
          /\ raised.detail # <<"already tagged">>

\* with skip_errors set, a tag the adapter reports has stopped pre_release
C11_Witness ==
    /\ InPreRelease /\ skip_errors /\ pc = "done"
    /\ IsTagExists(log[Len(log)])
    /\ log[Len(log)].outcome = "ok"
    /\ log[Len(log)].tag_name \in repo_tags
    /\ raised = Err("ReleaseError", <<"already tagged">>)

\* ===================================================================
\* Properties of get_current_tag_name
\* ===================================================================
\* formatting the tag-name template against the package fails
TemplateFails == ~format(package, config.tag_name).ok

TagNameError == Err("ReleaseError", <<"tag_name">>)

\* a step that is a whole call of post_release
PostReleaseStep == Callable /\ pc' = "done" /\ frame'.op = "post_release"

\* what a step does when the template fails
C12_Step ==
    TemplateFails =>
       /\ repo_tags' = repo_tags
       /\ (pc = "pre_release_tag" /\ check_existing_tag)
          => /\ pc' = "done"
             /\ raised' = TagNameError
             /\ log' = log
             /\ ~returned'.some
       /\ PostReleaseStep
          => /\ raised' = TagNameError
             /\ log' = <<>>
             /\ ~returned'.some

\* C12: when formatting the tag-name template fails, the tag step of
\* pre_release (when the tag is checked) and post_release both end with the
\* ReleaseError of get_current_tag_name, whatever skip_errors is, without a
\* call of tag_exists or create_release_tag, without a warning and without
\* returning, and no step creates a tag.
C12_TemplateFailureIsHard == [][C12_Step]_vars

\* with skip_errors set, post_release has ended with the template's error
C12_Witness ==
    /\ InPostRelease /\ pc = "done" /\ skip_errors /\ vcs
    /\ TemplateFails
    /\ raised = TagNameError
    /\ log = <<>>

\* ===================================================================
\* Properties of get_previous_release
\* ===================================================================
InPrevious == frame.op = "get_previous_release"

\* the released packages older than the current one
Older(listing) == {p \in listing : p.version < package.version}

\* C13: get_previous_release returns the released package of the greatest
\* version among those strictly less than the current version, and none
\* exactly when no released version is strictly less.
C13_NewestStrictlyOlder ==
    (InPrevious /\ pc = "done") =>
       LET older == Older(log[1].result) IN
       /\ raised = NoError
       /\ returned.some
       /\ (returned.value = None) <=> (older = {})
       /\ returned.value # None
          => /\ returned.value[1] \in older
             /\ \A q \in older : q.version <= returned.value[1].version

\* releases of an older, the current and a newer version: the older one is
\* returned
C13_Witness ==
    /\ InPrevious /\ pc = "done"
    /\ package.version = 2
    /\ {p.version : p \in log[1].result} = {1, 2, 3}
    /\ returned.value # None
    /\ returned.value[1].version = 1

\* ===================================================================
\* Properties of build-only mode
\* ===================================================================
\* the operations of the adapter
AdapterCalls == VcsCalls \cup {"vcs.name"}

\* the operations that need the adapter
ReleaseOps == {"pre_release", "post_release", "get_release_data"}

\* what a step does on an orchestrator without an adapter
C14_Step ==
    ~vcs =>
       /\ repo_tags' = repo_tags
       /\ \A i \in DOMAIN log' : log'[i].call \notin AdapterCalls
       /\ frame'.op \in ReleaseOps
          => /\ ~returned'.some
             /\ pc' \in {"pre_release_repostate", "done"}
             /\ pc' = "done"
                => \/ raised' = Err("AssertionError", <<>>)
                   \/ /\ frame'.op = "pre_release"
                      /\ raised' = Err("ReleaseError", <<"release_path">>)
                   \/ /\ frame'.op = "post_release"
                      /\ raised' = TagNameError

\* C14: on an orchestrator without an adapter no step of any operation
\* calls the adapter or creates a tag; pre_release, post_release and
\* get_release_data end with the failed assertion, or with the ReleaseError
\* of a check that comes before it, and never return.
C14_BuildOnlyNeverTouchesVcs == [][C14_Step]_vars

\* without an adapter, after a build context was written, post_release has
\* ended on its assertion
C14_Witness ==
    /\ ~vcs /\ files # <<>>
    /\ InPostRelease /\ pc = "done"
    /\ raised = Err("AssertionError", <<>>)
    /\ repo_tags = {}

\* a step that is a whole call of get_current_tag_name
TagNameStep ==
    Callable /\ pc' = "done" /\ frame'.op = "get_current_tag_name"

\* the tag names the operation that has just ended passed to the adapter
\* or returned
TagNamesSeen ==
    {log[i].tag_name :
        i \in {j \in DOMAIN log : log[j].call \in {"vcs.tag_exists",
                                                   "vcs.create_release_tag"}}}
    \cup (IF frame.op = "get_current_tag_name" /\ returned.some
          THEN {returned.value} ELSE {})

\* what a call of get_current_tag_name, and a call of post_release after
\* pre_release, do
C15_Step ==
    /\ TagNameStep
       => /\ fields' = fields /\ repo_tags' = repo_tags /\ files' = files
          /\ frame.op = "get_current_tag_name"
             => (raised' = raised /\ returned' = returned)
          /\ returned'.some => \A t \in TagNamesSeen : returned'.value = t
          /\ ~returned'.some => (raised' = TagNameError /\ TagNamesSeen = {})
    /\ (PostReleaseStep /\ InPreRelease /\ log' # <<>>)
       => \A t \in TagNamesSeen : log'[1].tag_name = t

CheckRank(e) ==
    CASE e.call = "os.path.exists" -> 1
      [] e.call = "vcs.validate_repostate" -> 2
      [] e.call = "vcs.tag_exists" -> 3
      [] e.call = "iter_packages" -> 4
      [] OTHER -> 0

IsCheck(e) == CheckRank(e) > 0
Checks == SelectSeq(log, IsCheck)
LastCheck == CheckRank(Checks[Len(Checks)])

\* the check whose error ended pre_release (0 when none did)
FailedCheck ==
    CASE raised = Err("ReleaseError", <<"release_path">>) -> 1
      [] raised.detail = <<"validate_repostate">> -> 2
      [] raised.detail \in {<<"tag_name">>, <<"tag_exists">>,
                            <<"already tagged">>} -> 3
      [] raised = Err("ReleaseError", <<"UUID mismatch">>) -> 4
      [] raised.type = "ReleaseError" /\ raised.detail # <<>>
         /\ raised.detail[1] = "newer" -> 5
      [] OTHER -> 0

\* C16: pre_release tests the release path, then validates the repository
\* state, then looks for the tag, then reads the released packages; each
\* check runs at most once and only after the ones before it; an error ends
\* pre_release at the check that raised it, with no later check run (no
\* adapter call after a missing release path, no listing read after a tag
\* collision); and with packages read that violate both the uuid and the
\* newer-version checks, the uuid error is the one raised.
C16_ChecksInOrderFailFast ==
    InPreRelease =>
       /\ Checks # <<>> /\ CheckRank(Checks[1]) = 1
       /\ \A i, j \in DOMAIN Checks :
             i < j => CheckRank(Checks[i]) < CheckRank(Checks[j])
       /\ LastCheck >= 3
          => \E i \in DOMAIN Checks : CheckRank(Checks[i]) = 2
       /\ raised # NoError
          => /\ pc = "done" /\ ~returned.some
             /\ raised.type # "AssertionError"
                => /\ FailedCheck > 0
                   /\ LastCheck = Min({FailedCheck, 4})
                      \/ (raised.detail = <<"tag_name">> /\ LastCheck = 2)
       /\ raised = Err("ReleaseError", <<"release_path">>)
          => \A i \in DOMAIN log : log[i].call \notin VcsCalls
       /\ (PackagesRead /\ UuidClash /\ ensure_latest
           /\ Newest(ReleasedSet).version > package.version)
          => raised = Err("ReleaseError", <<"UUID mismatch">>)

\* the released packages violate both the uuid and the newer-version
\* checks, and the uuid error is raised
C16_Witness ==
    /\ PackagesRead /\ UuidClash /\ ensure_latest
    /\ Newest(ReleasedSet).version > package.version
    /\ raised = Err("ReleaseError", <<"UUID mismatch">>)
    /\ Len(Checks) = 4

\* ===================================================================
\* Properties of a failing per-variant function
\* ===================================================================
\* the per-variant function has raised
FuncFailed == \E i \in DOMAIN FuncCalls : ~FuncCalls[i].outcome.ok

\* the selected variants up to index k
SelectedUpTo(k) == {i \in Selected : i <= k}

\* C17: when the per-variant function raises on the selected variant of
\* index k, that call is the last thing visit_variants does: it ends with
\* the function's error, returning nothing; the function has been called
\* once on each selected variant of index up to k, in ascending order, and
\* on no variant of greater index; the values returned for the earlier
\* variants are kept.
C17_FuncErrorStopsTheWalk ==
    (InVisit /\ FuncFailed) =>
       LET last == FuncCalls[Len(FuncCalls)]
           k == last.index
       IN
       /\ log[Len(log)] = last
       /\ ~last.outcome.ok
       /\ \A i \in 1..(Len(FuncCalls) - 1) : FuncCalls[i].outcome.ok
       /\ pc = "done"
       /\ raised = Err(last.outcome.value, <<k>>)
       /\ ~returned.some
       /\ Len(FuncCalls) = Cardinality(SelectedUpTo(k))
       /\ \A i \in DOMAIN FuncCalls :
             FuncCalls[i].index = sorted(SelectedUpTo(k))[i]
       /\ Len(frame.results) = Len(FuncCalls) - 1
       /\ \A i \in DOMAIN frame.results :
             frame.results[i] = FuncCalls[i].outcome.value
       /\ frame.num_visited = Len(FuncCalls) - 1

\* of three variants the filter selects the first two; the function
\* returned for the first and raised on the second
C17_Witness ==
    /\ InVisit /\ FuncFailed /\ pc = "done"
    /\ package.num_variants = 3
    /\ frame.variants = {0, 1}
    /\ Len(FuncCalls) = 2
    /\ FuncCalls[2].index = 1
    /\ frame.results = <<FuncCalls[1].outcome.value>>

\* ===================================================================
\* Properties of the two adapter calls of get_release_data
\* ===================================================================
IsRevisionCall(e) == e.call = "vcs.get_current_revision"
IsChangelogCall(e) == e.call = "vcs.get_changelog"
RevisionCalls == SelectSeq(log, IsRevisionCall)
ChangelogCalls == SelectSeq(log, IsChangelogCall)

\* the previous release, as the newest of the older released packages
PreviousOf(listing) ==
    IF Older(listing) = {} THEN None ELSE Some(Newest(Older(listing)))

\* C18: in get_release_data the current revision and the changelog are
\* asked for in two scopes of their own. With skip_errors, after a
\* ReleaseVCSError of get_current_revision get_changelog is still called
\* with the previous revision, and the record returned has none for the
\* revision exactly when the first call failed and none for the changelog
\* exactly when the second failed; previous_version and previous_revision
\* are those of the previous release, or both none. Without skip_errors the
\* first call that fails ends the operation with its error and no record.
C18_TwoIndependentScopes ==
    (InData /\ vcs /\ pc = "done") =>
       /\ Len(RevisionCalls) = 1 /\ Len(ChangelogCalls) <= 1
       /\ (skip_errors /\ RevisionCalls[1].outcome = "ReleaseVCSError")
          => Len(ChangelogCalls) = 1
       /\ Len(ChangelogCalls) = 1
          => /\ PreviousOf(log[1].result) = None
                => ChangelogCalls[1].previous_revision = None
             /\ PreviousOf(log[1].result) # None
                => ChangelogCalls[1].previous_revision
                      = Some(PreviousOf(log[1].result)[1].revision)
       /\ returned.some
          => /\ Len(ChangelogCalls) = 1
             /\ raised = NoError
             /\ (returned.value.revision = None)
                   <=> (RevisionCalls[1].outcome # "ok")
             /\ (returned.value.changelog = None)
                   <=> (ChangelogCalls[1].outcome # "ok")
             /\ \A c \in {RevisionCalls[1], ChangelogCalls[1]} :
                   c.outcome # "ok"
                   => (skip_errors /\ c.outcome = "ReleaseVCSError")
             /\ returned.value.previous_revision
                   = ChangelogCalls[1].previous_revision
             /\ (returned.value.previous_version = None)
                   <=> (PreviousOf(log[1].result) = None)
             /\ PreviousOf(log[1].result) # None
                => returned.value.previous_version
                      = Some(PreviousOf(log[1].result)[1].version)
       /\ ~skip_errors
          => \A i \in DOMAIN log :
                (log[i].call \in VcsCalls /\ log[i].outcome # "ok")
                => /\ i = Len(log)
                   /\ ~returned.some
                   /\ raised.type = log[i].outcome

\* with skip_errors the revision could not be read, the changelog since
\* the previous release could, and the record has the one without the other
C18_Witness ==
    /\ InData /\ vcs /\ pc = "done" /\ skip_errors
    /\ returned.some
    /\ RevisionCalls[1].outcome = "ReleaseVCSError"
    /\ returned.value.revision = None
    /\ returned.value.changelog # None
    /\ returned.value.previous_version # None

\* ===================================================================
\* Properties of a tag check that could not be made
\* ===================================================================
TagCollision == Err("ReleaseError", <<"already tagged">>)

\* C19: in pre_release with the tag checked and skip_errors set, a
\* ReleaseVCSError of tag_exists is printed as a warning and the tag is
\* taken not to exist: no tag error is raised and pre_release goes on to
\* read the released packages, whatever the repository holds; the
\* tag-collision error is raised only when the last call was a tag_exists
\* that returned true.
C19_UncheckedTagDoesNotBlock ==
    InPreRelease =>
       /\ \A i \in DOMAIN log :
             (/\ IsTagExists(log[i])
              /\ log[i].outcome = "ReleaseVCSError"
              /\ skip_errors)
             => /\ i < Len(log)
                /\ log[i + 1] = print_warning("ReleaseVCSError")
                /\ raised.detail \notin {<<"already tagged">>,
                                         <<"tag_exists">>}
                /\ \/ pc = "pre_release_packages" /\ raised = NoError
                   \/ pc = "done" /\ log[Len(log)].call = "iter_packages"
       /\ raised = TagCollision
          => /\ IsTagExists(log[Len(log)])
             /\ log[Len(log)].outcome = "ok"
             /\ log[Len(log)].tag_name \in repo_tags

\* with skip_errors, tag_exists failed for a tag the repository holds, and
\* pre_release has returned
C19_Witness ==
    /\ InPreRelease /\ pc = "done" /\ skip_errors
    /\ returned.some
    /\ \E i \in DOMAIN log :
          /\ IsTagExists(log[i])
          /\ log[i].outcome = "ReleaseVCSError"
          /\ log[i].tag_name \in repo_tags

\* ===================================================================
\* Properties of create_build_process
\* ===================================================================
InCreate == frame.op = "create_build_process"

IsLookup(e) == e.call = "get_plugin_class"
IsConstruction(e) == e.call = "cls"

\* C20: create_build_process raises BuildProcessError ('Unknown build
\* process') for a process type that is not registered, before the plugin
\* class is looked up or a build process constructed; for a registered type
\* it constructs that type's class with the arguments given.
C20_UnknownProcessTypeIsRefused ==
    (InCreate /\ pc = "done") =>
       IF frame.process_type \notin get_build_process_types
       THEN /\ raised = Err("BuildProcessError",
                            <<"Unknown build process", frame.process_type>>)
            /\ ~returned.some
            /\ \A i \in DOMAIN log :
                  ~IsLookup(log[i]) /\ ~IsConstruction(log[i])
       ELSE /\ IsConstruction(log[Len(log)])
            /\ log[Len(log)].cls = <<"class", frame.process_type>>
            /\ log[Len(log)].working_dir = frame.working_dir
            /\ log[Len(log)].build_system = frame.build_system
            /\ log[Len(log)].vcs = frame.vcs
            /\ log[Len(log)].flags = frame.flags

====
